---- MODULE Spec2Model ----
(***************************************************************************)
(* Mileva API gateway (server.js): the middleware chain, the auth gates,   *)
(* the route handlers, callOllamaAPI with its abort timer, mapModelName    *)
(* and convertMessagesToPrompt.                                            *)
(*                                                                         *)
(* Strings are sequences of atoms; an atom is a literal piece of text      *)
(* whose characters are never split. The atom "timeout" is the only atom   *)
(* that contains the substring 'timeout'. JavaScript values are records    *)
(* [t |-> type, v |-> payload].                                            *)
(***************************************************************************)
EXTENDS Integers, Sequences, FiniteSets, TLC

\* ------------------------------------------------------------------ bounds
MaxTextLen == 2
MaxErrLen == 1
MaxMsgs == 2

\* ------------------------------------------------------- JavaScript values
undefined == [t |-> "undefined", v |-> <<>>]
Str(s) == [t |-> "string", v |-> s]
Bool(b) == [t |-> "boolean", v |-> IF b THEN <<"true">> ELSE <<"false">>]
Num5 == [t |-> "number", v |-> <<"5">>]
Fn(name) == [t |-> "function", v |-> <<name>>]
Obj(name) == [t |-> "object", v |-> <<name>>]
Arr(s) == [t |-> "array", v |-> s]

\* ToBoolean
Truthy(x) ==
    CASE x.t = "undefined" -> FALSE
      [] x.t = "string" -> x.v # <<>>
      [] x.t = "boolean" -> x.v = <<"true">>
      [] OTHER -> TRUE

\* a === b
StrictEq(a, b) == a.t = b.t /\ a.v = b.v

\* a || b
Or(a, b) == IF Truthy(a) THEN a ELSE b

\* String.prototype.includes for a needle that is one atom
Includes(s, atom) == \E i \in 1..Len(s) : s[i] = atom

\* String.prototype.replace(atom, ''): the first occurrence only
RECURSIVE ReplaceFirst(_, _)
ReplaceFirst(s, atom) ==
    IF s = <<>> THEN <<>>
    ELSE IF Head(s) = atom THEN Tail(s)
    ELSE <<Head(s)>> \o ReplaceFirst(Tail(s), atom)

\* number of characters of an atom
Width(a) ==
    CASE a = "timeout" -> 7
      [] a = "a" -> 1
      [] a = "System: " -> 8
      [] a = "Human: " -> 7
      [] a = "Assistant: " -> 11
      [] a = "\n\n" -> 2
      [] OTHER -> 1

\* String.prototype.length
RECURSIVE StrLen(_)
StrLen(s) == IF s = <<>> THEN 0 ELSE Width(Head(s)) + StrLen(Tail(s))

\* Math.ceil(n / 4)
CeilDiv4(n) == (n + 3) \div 4

\* ------------------------------------------------------------ mapModelName
DefaultModel == "llama3.2:3b"

modelMap ==
    [k \in {"gpt-3.5-turbo", "gpt-3.5-turbo-instruct", "gpt-4", "gpt-4-turbo",
            "gpt-4o", "gpt-4o-mini", "text-davinci-003", "text-davinci-002",
            "code-davinci-002", "llama3.2:1b", "llama3.2:3b", "gemma3:4b",
            "phi3:mini"} |->
        CASE k \in {"gpt-3.5-turbo", "gpt-3.5-turbo-instruct", "text-davinci-003",
                    "llama3.2:3b"} -> "llama3.2:3b"
          [] k \in {"gpt-4", "gpt-4-turbo", "gpt-4o", "gemma3:4b"} -> "gemma3:4b"
          [] k \in {"gpt-4o-mini", "text-davinci-002", "llama3.2:1b"} -> "llama3.2:1b"
          [] OTHER -> "phi3:mini"]

\* modelMap is an object literal: a property read also finds what it inherits
\* from Object.prototype
ObjectPrototypeFunctions ==
    {"constructor", "toString", "toLocaleString", "valueOf", "hasOwnProperty",
     "isPrototypeOf", "propertyIsEnumerable"}

\* modelMap[key]
GetProperty(key) ==
    IF key \in DOMAIN modelMap THEN Str(<<modelMap[key]>>)
    ELSE IF key \in ObjectPrototypeFunctions THEN Fn(key)
    ELSE IF key = "__proto__" THEN Obj("Object.prototype")
    ELSE undefined

\* the property key of a value used as an index
ToPropertyKey(x) ==
    CASE x.t = "string" /\ Len(x.v) = 1 -> x.v[1]
      [] x.t = "undefined" -> "undefined"
      [] OTHER -> "[other]"

mapModelName(openaiModel) ==
    Or(GetProperty(ToPropertyKey(openaiModel)), Str(<<DefaultModel>>))

\* ------------------------------------------------- convertMessagesToPrompt
RECURSIVE FlattenMessages(_)
FlattenMessages(ms) ==
    IF ms = <<>> THEN <<>>
    ELSE LET m == Head(ms)
             seg == CASE m.role = "system" -> <<"System: ">> \o m.content \o <<"\n\n">>
                      [] m.role = "user" -> <<"Human: ">> \o m.content \o <<"\n\n">>
                      [] m.role = "assistant" -> <<"Assistant: ">> \o m.content \o <<"\n\n">>
                      [] OTHER -> <<>>
         IN  seg \o FlattenMessages(Tail(ms))

convertMessagesToPrompt(messages) ==
    IF ~Truthy(messages) \/ messages.t # "array" THEN <<>>
    ELSE FlattenMessages(messages.v) \o <<"Assistant: ">>

\* ---------------------------------------------------------------- requests
Atoms == {"a", "timeout"}

SeqsUpTo(S, n) == UNION {[1..k -> S] : k \in 0..n}

Texts == SeqsUpTo(Atoms, MaxTextLen)
ErrTexts == SeqsUpTo(Atoms, MaxErrLen)

PublicRoutes == {"/", "/health"}
NativeRoutes == {"/api/llama32-1b", "/api/llama32-3b", "/api/gemma3-4b", "/api/phi3-mini"}
TestRoutes == {"/api/test-ollama", "/api/test-complex"}
ApiRoutes == NativeRoutes \cup TestRoutes \cup {"/api/ollama-status", "/api/google-gemma"}
V1Routes == {"/v1/models", "/v1/chat/completions", "/v1/completions"}
OllamaRoutes == NativeRoutes \cup TestRoutes \cup {"/v1/chat/completions", "/v1/completions"}
GenerationRoutes == NativeRoutes \cup {"/v1/chat/completions", "/v1/completions"}
Routes == PublicRoutes \cup ApiRoutes \cup V1Routes

Secret == Str(<<"secret">>)
XApiKeys == {undefined, Str(<<>>), Secret, Str(<<"wrong">>)}
Authorizations == {undefined, Str(<<"Bearer ", "secret">>), Str(<<"Bearer ", "wrong">>)}

Messages == [role : {"system", "user", "assistant", "tool"}, content : {<<"a">>}]
MessagesVals == {undefined, Str(<<"a">>)} \cup {Arr(ms) : ms \in SeqsUpTo(Messages, MaxMsgs)}
ModelVals == {undefined} \cup
    {Str(<<a>>) : a \in DOMAIN modelMap \cup {"constructor", "__proto__", "my-model"}}
TextVals == {undefined, Num5} \cup {Str(t) : t \in Texts}
StreamVals == {undefined, Bool(TRUE), Bool(FALSE)}
ContentsVals == {undefined, Arr(<<[role |-> "user", parts |-> <<<<"b">>>>]>>)}
GooglePromptVals == {undefined, Str(<<>>), Str(<<"a">>)}

\* req.body after express.json(); ok = FALSE is a body that does not parse
EmptyBody ==
    [ok |-> TRUE, input |-> undefined, prompt |-> undefined, messages |-> undefined,
     model |-> undefined, stream |-> undefined, contents |-> undefined]
Malformed == [EmptyBody EXCEPT !.ok = FALSE]

BodiesOf(route) ==
    CASE route \in NativeRoutes ->
            {Malformed} \cup {[EmptyBody EXCEPT !.input = i] : i \in TextVals}
      [] route = "/v1/chat/completions" ->
            {Malformed} \cup
            {[EmptyBody EXCEPT !.model = m, !.messages = ms, !.stream = st] :
                m \in ModelVals, ms \in MessagesVals, st \in StreamVals}
      [] route = "/v1/completions" ->
            {Malformed} \cup
            {[EmptyBody EXCEPT !.model = m, !.prompt = p, !.stream = st] :
                m \in ModelVals, p \in TextVals, st \in StreamVals}
      [] route = "/api/google-gemma" ->
            {Malformed} \cup
            {[EmptyBody EXCEPT !.prompt = p, !.contents = c, !.input = i] :
                p \in GooglePromptVals, c \in ContentsVals, i \in GooglePromptVals}
      [] OTHER -> {Malformed, EmptyBody}

Requests ==
    UNION {[route : {rt}, xApiKey : XApiKeys, authorization : Authorizations,
            body : BodiesOf(rt)] : rt \in Routes}

NoRequest ==
    [route |-> "", xApiKey |-> undefined, authorization |-> undefined, body |-> EmptyBody]

\* ------------------------------------------------------------------- state
VARIABLES
    API_KEY,         \* process.env.API_KEY, read once at startup
    GEMINI_API_KEY,  \* process.env.GEMINI_API_KEY, read once at startup
    pc,              \* per request: where its processing stands
    req,             \* per request: the inbound request
    resp,            \* per request: the response sent, status 0 = none yet
    nresp,           \* per request: number of responses sent
    handlerRan,      \* per request: a route handler was entered
    ollamaCalls,     \* per request: POSTs issued to the Ollama generate endpoint
    call,            \* per request: the JSON body and timeout of the generate call
    timer,           \* per request: the abort timer of callOllamaAPI
    reply,           \* per request: what the upstream has delivered so far
    thrown,          \* per request: the error callOllamaAPI threw, if any
    tagsCalls,       \* per request: GETs issued to the Ollama tags endpoint
    googleCalls,     \* per request: generateContentStream calls issued
    gcontents,       \* per request: the contents sent to the provider
    supervisorUp,    \* start-server.js is running
    restartCount,    \* start-server.js: restartCount
    children,        \* server children spawned and not yet closed
    restartTimers,   \* pending setTimeout(startServer, RESTART_DELAY): ms left of each
    resetTimers,     \* pending setTimeout(restartCount = 0, 30000): ms left of each
    exitLog,         \* the exit code of the last close event, if any
    logged           \* the last message the supervisor logged

vars == <<API_KEY, GEMINI_API_KEY, pc, req, resp, nresp, handlerRan, ollamaCalls,
          call, timer, reply, thrown, tagsCalls, googleCalls, gcontents,
          supervisorUp, restartCount, children, restartTimers, resetTimers, exitLog,
          logged>>

supervisor ==
    <<supervisorUp, restartCount, children, restartTimers, resetTimers, exitLog, logged>>

config == <<API_KEY, GEMINI_API_KEY>>

Slots == {1}

NoResponse == [status |-> 0, body |-> [kind |-> "none"]]
NoCall == [model |-> undefined, prompt |-> undefined, timeout |-> 0]
NoReply == [kind |-> "none"]
NoError == [name |-> "", message |-> <<>>]
Error(message) == [name |-> "Error", message |-> message]

InitRequests ==
    /\ pc = [r \in Slots |-> "new"]
    /\ req = [r \in Slots |-> NoRequest]
    /\ resp = [r \in Slots |-> NoResponse]
    /\ nresp = [r \in Slots |-> 0]
    /\ handlerRan = [r \in Slots |-> FALSE]
    /\ ollamaCalls = [r \in Slots |-> 0]
    /\ call = [r \in Slots |-> NoCall]
    /\ timer = [r \in Slots |-> "unset"]
    /\ reply = [r \in Slots |-> NoReply]
    /\ thrown = [r \in Slots |-> NoError]
    /\ tagsCalls = [r \in Slots |-> 0]
    /\ googleCalls = [r \in Slots |-> 0]
    /\ gcontents = [r \in Slots |-> undefined]

\* the values the state takes
TypeOK ==
    /\ API_KEY \in {undefined, Secret}
    /\ GEMINI_API_KEY \in {undefined, Str(<<"gkey">>)}
    /\ \A r \in Slots :
        /\ pc[r] \in {"new", "arrived", "routing", "error", "rejected", "abandoned",
                     "handler", "fetching", "aborted", "json", "text", "tags",
                     "gstream", "done"}
        /\ pc[r] = "new" <=> req[r] = NoRequest
        /\ nresp[r] \in 0..1
        /\ nresp[r] = 1 <=> resp[r].status # 0
        /\ handlerRan[r] \in BOOLEAN
        /\ ollamaCalls[r] \in 0..1
        /\ tagsCalls[r] \in 0..1
        /\ googleCalls[r] \in 0..1
        /\ timer[r] \in {"unset", "armed", "cleared", "fired"}
        /\ call[r].timeout \in {0, 30000, 120000, 150000, 180000}
        /\ reply[r].kind \in {"none", "headers", "failed", "aborted", "data", "error",
                            "unreadable", "tags", "chunks", "provider_error"}
        /\ thrown[r].name \in {"", "Error", "TypeError", "SyntaxError"}

\* `npm start`: node server.js runs without start-server.js
NoSupervisor ==
    /\ supervisorUp = FALSE
    /\ restartCount = 0
    /\ children = 0
    /\ restartTimers = <<>>
    /\ resetTimers = {}
    /\ exitLog = <<>>
    /\ logged = ""

Init ==
    /\ API_KEY \in {undefined, Secret}
    /\ GEMINI_API_KEY \in {undefined, Str(<<"gkey">>)}
    /\ InitRequests
    /\ NoSupervisor

\* ------------------------------------------------------------- responses
Send(r, response) ==
    /\ resp' = [resp EXCEPT ![r] = response]
    /\ nresp' = [nresp EXCEPT ![r] = @ + 1]
    /\ pc' = [pc EXCEPT ![r] = "done"]

NativeError(status, message) ==
    [status |-> status, body |-> [kind |-> "error", error |-> message]]

OpenAIError(status, message, type, code) ==
    [status |-> status,
     body |-> [kind |-> "openai_error", message |-> message, type |-> type, code |-> code]]

\* JSON.stringify leaves out a property whose value is undefined or a function
JsonField(x) == IF x.t \in {"undefined", "function"} THEN undefined ELSE x

\* variant: the thrown message no longer holds the word the handlers look for
TimeoutMessage_Reworded == <<"Request aborted - ollama took too long to respond">>

TimeoutMessage == <<"Request ", "timeout", " - ollama took too long to respond">>
UpstreamMessage(status, errorText) == <<"Ollama API error (", status, "): ">> \o errorText
FetchFailedMessage == <<"fetch failed">>
BodyFailedMessage == <<"Unexpected end of JSON input">>
LengthOfUndefinedMessage == <<"Cannot read properties of undefined (reading 'length')">>
SubstringMessage == <<"prompt.substring is not a function">>
MissingKeyMessage == <<"GEMINI_API_KEY", " environment variable not set">>

\* ------------------------------------------------------ middleware and gates
\* the request reaches the server
Arrive(r) ==
    /\ pc[r] = "new"
    /\ \E q \in Requests : req' = [req EXCEPT ![r] = q]
    /\ pc' = [pc EXCEPT ![r] = "arrived"]
    /\ UNCHANGED <<config, supervisor, resp, nresp, handlerRan, ollamaCalls, call, timer, reply, thrown,
                   tagsCalls, googleCalls, gcontents>>

\* app.use(express.json()): a body that does not parse goes to next(err)
JsonMiddleware(r) ==
    /\ pc[r] = "arrived"
    /\ pc' = [pc EXCEPT ![r] = IF req[r].body.ok THEN "routing" ELSE "error"]
    /\ UNCHANGED <<config, supervisor, req, resp, nresp, handlerRan, ollamaCalls, call, timer, reply, thrown,
                   tagsCalls, googleCalls, gcontents>>

\* req.headers['x-api-key']
ApiKeyOf(q) == q.xApiKey

\* variant: the public routes are registered after the /api gate
PublicRoute_Gated(r) ==
    /\ pc[r] = "routing"
    /\ req[r].route \in PublicRoutes
    /\ IF ~StrictEq(ApiKeyOf(req[r]), API_KEY)
       THEN /\ Send(r, NativeError(403, <<"Forbidden - Invalid API Key">>))
            /\ UNCHANGED handlerRan
       ELSE /\ handlerRan' = [handlerRan EXCEPT ![r] = TRUE]
            /\ Send(r, [status |-> 200, body |-> [kind |-> "public", route |-> req[r].route]])
    /\ UNCHANGED <<config, supervisor, req, ollamaCalls, call, timer, reply, thrown, tagsCalls, googleCalls,
                   gcontents>>

\* app.get('/') and app.get('/health'), registered before the gates
PublicRoute(r) ==
    /\ pc[r] = "routing"
    /\ req[r].route \in PublicRoutes
    /\ handlerRan' = [handlerRan EXCEPT ![r] = TRUE]
    /\ Send(r, [status |-> 200, body |-> [kind |-> "public", route |-> req[r].route]])
    /\ UNCHANGED <<config, supervisor, req, ollamaCalls, call, timer, reply, thrown, tagsCalls, googleCalls,
                   gcontents>>

\* app.use('/api', ...)
ApiGate(r) ==
    /\ pc[r] = "routing"
    /\ req[r].route \in ApiRoutes
    /\ IF ~StrictEq(ApiKeyOf(req[r]), API_KEY)
       THEN Send(r, NativeError(403, <<"Forbidden - Invalid API Key">>))
       ELSE /\ pc' = [pc EXCEPT ![r] = "handler"]
            /\ UNCHANGED <<resp, nresp>>
    /\ UNCHANGED <<config, supervisor, req, handlerRan, ollamaCalls, call, timer, reply, thrown, tagsCalls,
                   googleCalls, gcontents>>

\* req.headers['x-api-key'] || req.headers['authorization']?.replace('Bearer ', '')
V1KeyOf(q) ==
    Or(q.xApiKey,
       IF q.authorization.t = "undefined" THEN undefined
       ELSE Str(ReplaceFirst(q.authorization.v, "Bearer ")))

\* app.use('/v1', ...)
V1Gate(r) ==
    /\ pc[r] = "routing"
    /\ req[r].route \in V1Routes
    /\ IF ~StrictEq(V1KeyOf(req[r]), API_KEY)
       THEN Send(r, OpenAIError(401, <<"Invalid API key provided">>,
                                "invalid_request_error", "invalid_api_key"))
       ELSE /\ pc' = [pc EXCEPT ![r] = "handler"]
            /\ UNCHANGED <<resp, nresp>>
    /\ UNCHANGED <<config, supervisor, req, handlerRan, ollamaCalls, call, timer, reply, thrown, tagsCalls,
                   googleCalls, gcontents>>

\* app.use((err, req, res, next) => ...)
ErrorMiddleware(r) ==
    /\ pc[r] = "error"
    /\ Send(r, NativeError(500, <<"Internal server error">>))
    /\ UNCHANGED <<config, supervisor, req, handlerRan, ollamaCalls, call, timer, reply, thrown, tagsCalls,
                   googleCalls, gcontents>>

\* an async handler threw outside its try: Express 5 passes the rejection to
\* the error middleware
RejectionForwarded(r) ==
    /\ pc[r] = "rejected"
    /\ pc' = [pc EXCEPT ![r] = "error"]
    /\ UNCHANGED <<config, supervisor, req, resp, nresp, handlerRan, ollamaCalls, call, timer, reply, thrown,
                   tagsCalls, googleCalls, gcontents>>

\* Express 4 ignores the promise a handler returns: no response is sent
RejectionUnhandled(r) ==
    /\ pc[r] = "rejected"
    /\ pc' = [pc EXCEPT ![r] = "abandoned"]
    /\ UNCHANGED <<config, supervisor, req, resp, nresp, handlerRan, ollamaCalls, call, timer, reply, thrown,
                   tagsCalls, googleCalls, gcontents>>

\* ------------------------------------------------------------ route tables
NativeModel(route) ==
    CASE route = "/api/llama32-1b" -> "llama3.2:1b"
      [] route = "/api/llama32-3b" -> "llama3.2:3b"
      [] route = "/api/gemma3-4b" -> "gemma3:4b"
      [] OTHER -> "phi3:mini"

\* variant: one timeout for every generation route
RouteTimeout_Uniform(route) ==
    CASE route = "/api/test-ollama" -> 30000
      [] OTHER -> 120000

RouteTimeout(route) ==
    CASE route \in {"/api/llama32-1b", "/v1/chat/completions", "/v1/completions"} -> 180000
      [] route \in {"/api/llama32-3b", "/api/phi3-mini", "/api/test-complex"} -> 120000
      [] route = "/api/gemma3-4b" -> 150000
      [] OTHER -> 30000

TestPrompt(route) ==
    IF route = "/api/test-ollama" THEN <<"Say hello">>
    ELSE <<"Write a simple function in Python that adds two numbers">>

\* ------------------------------------------------- what the handlers answer
\* error.message.includes('timeout')
IsTimeoutMessage(message) == Includes(message, "timeout")

\* the catch block of the route handler
HandlerCatch(q, message) ==
    CASE q.route \in TestRoutes -> NativeError(500, message)
      [] q.route \in NativeRoutes ->
            IF IsTimeoutMessage(message) THEN NativeError(408, message)
            ELSE NativeError(500, message)
      [] OTHER ->
            IF IsTimeoutMessage(message)
            THEN OpenAIError(408, <<"Request timed out - model took too long to respond">>,
                             "timeout_error", "timeout")
            ELSE OpenAIError(500, message, "internal_error", "model_error")

\* variant: total_tokens is the sum of the two other counters
Usage_TotalSummed(prompt, result) ==
    [prompt_tokens |-> CeilDiv4(StrLen(prompt)),
     completion_tokens |-> CeilDiv4(StrLen(result)),
     total_tokens |-> CeilDiv4(StrLen(prompt)) + CeilDiv4(StrLen(result))]

\* variant: Math.floor in place of Math.ceil
Usage_Floor(prompt, result) ==
    [prompt_tokens |-> StrLen(prompt) \div 4,
     completion_tokens |-> StrLen(result) \div 4,
     total_tokens |-> (StrLen(prompt) + StrLen(result)) \div 4]

Usage(prompt, result) ==
    [prompt_tokens |-> CeilDiv4(StrLen(prompt)),
     completion_tokens |-> CeilDiv4(StrLen(result)),
     total_tokens |-> CeilDiv4(StrLen(prompt) + StrLen(result))]

\* the response object of /v1/chat/completions
ChatCompletion(q, prompt, result) ==
    [status |-> 200,
     body |-> [kind |-> "chat.completion", model |-> q.body.model,
               role |-> "assistant", content |-> result, finish_reason |-> "stop",
               usage |-> Usage(prompt, result.v),
               ollama_model |-> JsonField(mapModelName(q.body.model))]]

\* the response object of /v1/completions
TextCompletion(q, prompt, result) ==
    [status |-> 200,
     body |-> [kind |-> "text_completion", model |-> q.body.model,
               text |-> result, finish_reason |-> "stop",
               usage |-> Usage(prompt, result.v),
               ollama_model |-> JsonField(mapModelName(q.body.model))]]

\* variant: the result is cut (result.substring(1)) before it is sent
NativeResult_Cut(result) ==
    [status |-> 200,
     body |-> [kind |-> "result",
               result |-> IF result.t = "string" /\ result.v # <<>>
                          THEN Str(Tail(result.v)) ELSE JsonField(result)]]

\* res.json({ result: result }) of the native routes
NativeResult(result) ==
    [status |-> 200, body |-> [kind |-> "result", result |-> JsonField(result)]]

\* the code of the route handler after `await callOllamaAPI(...)` returned
HandlerResult(q, prompt, result) ==
    CASE q.route \in NativeRoutes -> NativeResult(result)
      [] q.route \in TestRoutes ->
            [status |-> 200, body |-> [kind |-> "test", success |-> TRUE,
                                       result |-> JsonField(result)]]
      [] q.route = "/v1/chat/completions" ->
            IF result.t # "string" THEN HandlerCatch(q, LengthOfUndefinedMessage)
            ELSE ChatCompletion(q, prompt, result)
      [] OTHER ->
            IF result.t # "string" THEN HandlerCatch(q, LengthOfUndefinedMessage)
            ELSE TextCompletion(q, prompt, result)

\* ---------------------------------------------------------- route handlers
\* callOllamaAPI up to `await fetch(...)`: the timer is set, the POST is sent
StartCall(r, model, prompt, timeout) ==
    /\ ollamaCalls' = [ollamaCalls EXCEPT ![r] = @ + 1]
    /\ call' = [call EXCEPT ![r] =
                    [model |-> JsonField(model), prompt |-> Str(prompt), timeout |-> timeout]]
    /\ timer' = [timer EXCEPT ![r] = "armed"]
    /\ pc' = [pc EXCEPT ![r] = "fetching"]
    /\ UNCHANGED <<resp, nresp>>

\* app.post('/api/llama32-1b'), '/api/llama32-3b', '/api/gemma3-4b', '/api/phi3-mini'
NativeRoute(r) ==
    /\ pc[r] = "handler"
    /\ req[r].route \in NativeRoutes
    /\ handlerRan' = [handlerRan EXCEPT ![r] = TRUE]
    /\ LET input == req[r].body.input IN
       IF ~Truthy(input)
       THEN /\ Send(r, NativeError(400, <<"Missing input">>))
            /\ UNCHANGED <<ollamaCalls, call, timer>>
       ELSE IF input.t # "string"
       THEN \* input.substring is not a function, thrown outside the try
            /\ pc' = [pc EXCEPT ![r] = "rejected"]
            /\ UNCHANGED <<resp, nresp, ollamaCalls, call, timer>>
       ELSE StartCall(r, Str(<<NativeModel(req[r].route)>>), input.v,
                      RouteTimeout(req[r].route))
    /\ UNCHANGED <<config, supervisor, req, reply, thrown, tagsCalls, googleCalls, gcontents>>

\* variant: the validation failure is sent as a server error
MissingParameters_As500(what) ==
    OpenAIError(500, <<"Missing required parameters: model and ", what>>,
                "invalid_request_error", "missing_required_parameter")

MissingParameters(what) ==
    OpenAIError(400, <<"Missing required parameters: model and ", what>>,
                "invalid_request_error", "missing_required_parameter")

\* variant: the streaming rejection is sent as 501 Not Implemented
StreamingUnsupported_As501 ==
    OpenAIError(501, <<"Streaming is not supported yet">>,
                "invalid_request_error", "unsupported_parameter")

StreamingUnsupported ==
    OpenAIError(400, <<"Streaming is not supported yet">>,
                "invalid_request_error", "unsupported_parameter")

\* app.post('/v1/chat/completions')
ChatCompletions(r) ==
    /\ pc[r] = "handler"
    /\ req[r].route = "/v1/chat/completions"
    /\ handlerRan' = [handlerRan EXCEPT ![r] = TRUE]
    /\ LET b == req[r].body IN
       IF ~Truthy(b.model) \/ ~Truthy(b.messages)
       THEN /\ Send(r, MissingParameters("messages"))
            /\ UNCHANGED <<ollamaCalls, call, timer>>
       ELSE IF Truthy(b.stream)
       THEN /\ Send(r, StreamingUnsupported)
            /\ UNCHANGED <<ollamaCalls, call, timer>>
       ELSE StartCall(r, mapModelName(b.model), convertMessagesToPrompt(b.messages),
                      RouteTimeout(req[r].route))
    /\ UNCHANGED <<config, supervisor, req, reply, thrown, tagsCalls, googleCalls, gcontents>>

\* app.post('/v1/completions')
Completions(r) ==
    /\ pc[r] = "handler"
    /\ req[r].route = "/v1/completions"
    /\ handlerRan' = [handlerRan EXCEPT ![r] = TRUE]
    /\ LET b == req[r].body IN
       IF ~Truthy(b.model) \/ ~Truthy(b.prompt)
       THEN /\ Send(r, MissingParameters("prompt"))
            /\ UNCHANGED <<ollamaCalls, call, timer>>
       ELSE IF Truthy(b.stream)
       THEN /\ Send(r, StreamingUnsupported)
            /\ UNCHANGED <<ollamaCalls, call, timer>>
       ELSE IF b.prompt.t # "string"
       THEN \* prompt.substring is not a function, thrown inside the try
            /\ Send(r, HandlerCatch(req[r], SubstringMessage))
            /\ UNCHANGED <<ollamaCalls, call, timer>>
       ELSE StartCall(r, mapModelName(b.model), b.prompt.v, RouteTimeout(req[r].route))
    /\ UNCHANGED <<config, supervisor, req, reply, thrown, tagsCalls, googleCalls, gcontents>>

\* app.get('/api/test-ollama') and app.get('/api/test-complex')
TestRoute(r) ==
    /\ pc[r] = "handler"
    /\ req[r].route \in TestRoutes
    /\ handlerRan' = [handlerRan EXCEPT ![r] = TRUE]
    /\ StartCall(r, Str(<<"llama3.2:1b">>), TestPrompt(req[r].route),
                 RouteTimeout(req[r].route))
    /\ UNCHANGED <<config, supervisor, req, reply, thrown, tagsCalls, googleCalls, gcontents>>

\* app.get('/v1/models')
V1Models(r) ==
    /\ pc[r] = "handler"
    /\ req[r].route = "/v1/models"
    /\ handlerRan' = [handlerRan EXCEPT ![r] = TRUE]
    /\ Send(r, [status |-> 200, body |-> [kind |-> "list"]])
    /\ UNCHANGED <<config, supervisor, req, ollamaCalls, call, timer, reply, thrown, tagsCalls, googleCalls,
                   gcontents>>

\* ------------------------------------------- callOllamaAPI after the fetch
UpstreamStatuses == {"200", "404", "500"}

\* data.response of the upstream's JSON reply
ResponseVals == {undefined} \cup {Str(t) : t \in Texts}

\* variant: the timer is not cleared when the fetch resolves
FetchResolves_TimerLeft(r) ==
    /\ pc[r] = "fetching"
    /\ \E st \in UpstreamStatuses :
        /\ reply' = [reply EXCEPT ![r] = [kind |-> "headers", status |-> st]]
        /\ pc' = [pc EXCEPT ![r] = IF st = "200" THEN "json" ELSE "text"]
    /\ UNCHANGED <<config, supervisor, req, resp, nresp, handlerRan, ollamaCalls, call, thrown,
                   tagsCalls, googleCalls, gcontents, timer>>

\* fetch resolves: clearTimeout(timeoutId), then response.ok is looked at
FetchResolves(r) ==
    /\ pc[r] = "fetching"
    /\ \E st \in UpstreamStatuses :
        /\ reply' = [reply EXCEPT ![r] = [kind |-> "headers", status |-> st]]
        /\ pc' = [pc EXCEPT ![r] = IF st = "200" THEN "json" ELSE "text"]
    /\ timer' = [timer EXCEPT ![r] = "cleared"]
    /\ UNCHANGED <<config, supervisor, req, resp, nresp, handlerRan, ollamaCalls, call, thrown,
                   tagsCalls, googleCalls, gcontents>>

\* variant: a rejected fetch is tried again
FetchRejects_Retry(r) ==
    /\ pc[r] = "fetching"
    /\ ollamaCalls[r] < 3
    /\ ollamaCalls' = [ollamaCalls EXCEPT ![r] = @ + 1]
    /\ timer' = [timer EXCEPT ![r] = "armed"]
    /\ UNCHANGED <<config, supervisor, pc, req, resp, nresp, handlerRan, call, reply, thrown, tagsCalls,
                   googleCalls, gcontents>>

\* fetch rejects (connection refused, reset): the catch clears the timer and
\* rethrows, the handler's catch answers
FetchRejects(r) ==
    /\ pc[r] = "fetching"
    /\ reply' = [reply EXCEPT ![r] = [kind |-> "failed"]]
    /\ timer' = [timer EXCEPT ![r] = "cleared"]
    /\ thrown' = [thrown EXCEPT ![r] = [name |-> "TypeError", message |-> FetchFailedMessage]]
    /\ Send(r, HandlerCatch(req[r], FetchFailedMessage))
    /\ UNCHANGED <<config, supervisor, req, handlerRan, ollamaCalls, call, tagsCalls, googleCalls,
                   gcontents>>

\* variant: one AbortController shared by all calls; the timer of one call
\* aborts every pending fetch
TimerFires_SharedController(r) ==
    /\ pc[r] = "fetching"
    /\ timer[r] = "armed"
    /\ timer' = [timer EXCEPT ![r] = "fired"]
    /\ reply' = [s \in DOMAIN reply |->
                    IF pc[s] = "fetching" THEN [kind |-> "aborted"] ELSE reply[s]]
    /\ pc' = [s \in DOMAIN pc |-> IF pc[s] = "fetching" THEN "aborted" ELSE pc[s]]
    /\ UNCHANGED <<config, supervisor, req, resp, nresp, handlerRan, ollamaCalls, call, thrown,
                   tagsCalls, googleCalls, gcontents>>

\* setTimeout(() => controller.abort(), timeout) fires while the fetch is pending
TimerFires(r) ==
    /\ pc[r] = "fetching"
    /\ timer[r] = "armed"
    /\ timer' = [timer EXCEPT ![r] = "fired"]
    /\ reply' = [reply EXCEPT ![r] = [kind |-> "aborted"]]
    /\ pc' = [pc EXCEPT ![r] = "aborted"]
    /\ UNCHANGED <<config, supervisor, req, resp, nresp, handlerRan, ollamaCalls, call, thrown,
                   tagsCalls, googleCalls, gcontents>>

\* the aborted fetch rejects with an AbortError: callOllamaAPI throws the
\* timeout error, the handler's catch answers
AbortRejects(r) ==
    /\ pc[r] = "aborted"
    /\ thrown' = [thrown EXCEPT ![r] = Error(TimeoutMessage)]
    /\ Send(r, HandlerCatch(req[r], TimeoutMessage))
    /\ UNCHANGED <<config, supervisor, req, handlerRan, ollamaCalls, call, timer, reply, tagsCalls,
                   googleCalls, gcontents>>

\* await response.json(); return data.response; the handler answers
ReadJson(r) ==
    /\ pc[r] = "json"
    /\ \E result \in ResponseVals :
        /\ reply' = [reply EXCEPT ![r] = [kind |-> "data", response |-> result]]
        /\ Send(r, HandlerResult(req[r], call[r].prompt.v, result))
    /\ UNCHANGED <<config, supervisor, req, handlerRan, ollamaCalls, call, timer, thrown, tagsCalls,
                   googleCalls, gcontents>>

\* await response.text(); throw new Error(`Ollama API error (...): ...`)
ReadErrorText(r) ==
    /\ pc[r] = "text"
    /\ \E errorText \in ErrTexts :
        /\ reply' = [reply EXCEPT ![r] =
                        [kind |-> "error", status |-> reply[r].status, text |-> errorText]]
        /\ thrown' = [thrown EXCEPT ![r] = Error(UpstreamMessage(reply[r].status, errorText))]
        /\ Send(r, HandlerCatch(req[r], UpstreamMessage(reply[r].status, errorText)))
    /\ UNCHANGED <<config, supervisor, req, handlerRan, ollamaCalls, call, timer, tagsCalls,
                   googleCalls, gcontents>>

\* the body cannot be read or is not JSON: response.json()/text() rejects
ReadFails(r) ==
    /\ pc[r] \in {"json", "text"}
    /\ reply' = [reply EXCEPT ![r] = [kind |-> "unreadable"]]
    /\ thrown' = [thrown EXCEPT ![r] = [name |-> "SyntaxError", message |-> BodyFailedMessage]]
    /\ Send(r, HandlerCatch(req[r], BodyFailedMessage))
    /\ UNCHANGED <<config, supervisor, req, handlerRan, ollamaCalls, call, timer, tagsCalls,
                   googleCalls, gcontents>>

\* ------------------------------------------------------- /api/ollama-status
OllamaStatus(r) ==
    /\ pc[r] = "handler"
    /\ req[r].route = "/api/ollama-status"
    /\ handlerRan' = [handlerRan EXCEPT ![r] = TRUE]
    /\ tagsCalls' = [tagsCalls EXCEPT ![r] = @ + 1]
    /\ pc' = [pc EXCEPT ![r] = "tags"]
    /\ UNCHANGED <<config, supervisor, req, resp, nresp, ollamaCalls, call, timer, reply, thrown, googleCalls,
                   gcontents>>

TagsAnswered(r) ==
    /\ pc[r] = "tags"
    /\ \E st \in UpstreamStatuses \cup {"failed"} :
        /\ reply' = [reply EXCEPT ![r] = [kind |-> "tags", status |-> st]]
        /\ Send(r, CASE st = "200" -> [status |-> 200, body |-> [kind |-> "status", status |-> "running"]]
                    [] st = "failed" -> [status |-> 500, body |-> [kind |-> "status", status |-> "error",
                                                                  error |-> FetchFailedMessage]]
                    [] OTHER -> [status |-> 500, body |-> [kind |-> "status", status |-> "error",
                                     error |-> <<"Ollama service not responding (", st, ")">>]])
    /\ UNCHANGED <<config, supervisor, req, handlerRan, ollamaCalls, call, timer, thrown, tagsCalls,
                   googleCalls, gcontents>>

\* ------------------------------------------------------- /api/google-gemma
\* variant: the catch block answers with the thrown message as it is
GoogleCatch_Raw(message) == NativeError(500, message)

\* the catch block of app.post('/api/google-gemma')
GoogleCatch(message) ==
    IF Includes(message, "GEMINI_API_KEY")
    THEN NativeError(500, <<"Google API key not configured. Set ", "GEMINI_API_KEY",
                            " environment variable.">>)
    ELSE NativeError(500, message)

\* variant: the contents field is looked at before the prompt field
GoogleContents_ContentsFirst(b) ==
    IF Truthy(b.contents) THEN b.contents
    ELSE IF Truthy(b.prompt) THEN Arr(<<[role |-> "user", parts |-> <<b.prompt.v>>]>>)
    ELSE [t |-> "object", v |-> b]

\* the contents callGoogleGemmaAPI sends for a request body
GoogleContents(b) ==
    IF Truthy(b.prompt) THEN Arr(<<[role |-> "user", parts |-> <<b.prompt.v>>]>>)
    ELSE IF Truthy(b.contents) THEN b.contents
    ELSE [t |-> "object", v |-> b]

\* app.post('/api/google-gemma') and callGoogleGemmaAPI up to the stream call
GoogleGemma(r) ==
    /\ pc[r] = "handler"
    /\ req[r].route = "/api/google-gemma"
    /\ handlerRan' = [handlerRan EXCEPT ![r] = TRUE]
    /\ IF ~Truthy(GEMINI_API_KEY)
       THEN /\ Send(r, GoogleCatch(MissingKeyMessage))
            /\ UNCHANGED <<googleCalls, gcontents>>
       ELSE /\ googleCalls' = [googleCalls EXCEPT ![r] = @ + 1]
            /\ gcontents' = [gcontents EXCEPT ![r] = GoogleContents(req[r].body)]
            /\ pc' = [pc EXCEPT ![r] = "gstream"]
            /\ UNCHANGED <<resp, nresp>>
    /\ UNCHANGED <<config, supervisor, req, ollamaCalls, call, timer, reply, thrown, tagsCalls>>

RECURSIVE ConcatChunks(_)
ConcatChunks(chunks) ==
    IF chunks = <<>> THEN <<>>
    ELSE (IF Truthy(Head(chunks)) THEN Head(chunks).v ELSE <<>>) \o ConcatChunks(Tail(chunks))

ChunkVals == {undefined, Str(<<"a">>), Str(<<"b">>)}

\* for await (const chunk of response) ...; res.json({result, model, provider})
GoogleStreamEnds(r) ==
    /\ pc[r] = "gstream"
    /\ \E chunks \in SeqsUpTo(ChunkVals, MaxTextLen) :
        /\ reply' = [reply EXCEPT ![r] = [kind |-> "chunks", chunks |-> chunks]]
        /\ Send(r, [status |-> 200,
                    body |-> [kind |-> "google", result |-> Str(ConcatChunks(chunks)),
                              model |-> "gemma-3n-e4b-it", provider |-> "google"]])
    /\ UNCHANGED <<config, supervisor, req, handlerRan, ollamaCalls, call, timer, thrown, tagsCalls,
                   googleCalls, gcontents>>

\* generateContentStream or the stream throws
GoogleFails(r) ==
    /\ pc[r] = "gstream"
    /\ reply' = [reply EXCEPT ![r] = [kind |-> "provider_error"]]
    /\ Send(r, GoogleCatch(<<"provider error">>))
    /\ UNCHANGED <<config, supervisor, req, handlerRan, ollamaCalls, call, timer, thrown, tagsCalls,
                   googleCalls, gcontents>>

\* ------------------------------------------------------------ specification
Next ==
    \E r \in Slots :
        \/ Arrive(r)
        \/ JsonMiddleware(r)
        \/ PublicRoute(r)
        \/ ApiGate(r)
        \/ V1Gate(r)
        \/ ErrorMiddleware(r)
        \/ RejectionForwarded(r)
        \/ RejectionUnhandled(r)
        \/ NativeRoute(r)
        \/ ChatCompletions(r)
        \/ Completions(r)
        \/ TestRoute(r)
        \/ V1Models(r)
        \/ FetchResolves(r)
        \/ FetchRejects(r)
        \/ TimerFires(r)
        \/ AbortRejects(r)
        \/ ReadJson(r)
        \/ ReadErrorText(r)
        \/ ReadFails(r)
        \/ OllamaStatus(r)
        \/ TagsAnswered(r)
        \/ GoogleGemma(r)
        \/ GoogleStreamEnds(r)
        \/ GoogleFails(r)

Spec == Init /\ [][Next]_vars


\* ------------------------------------------- several requests in flight
\* Node runs one callback at a time; the callbacks of different requests
\* interleave at every await.
ConcSlots == {1, 2}

ConcRequests ==
    {q \in Requests :
        /\ q.xApiKey \in {undefined, Secret}
        /\ q.authorization = undefined
        /\ q.route \in {"/", "/api/llama32-1b", "/api/test-ollama", "/api/ollama-status",
                        "/api/google-gemma", "/v1/models", "/v1/chat/completions",
                        "/v1/completions"}
        /\ q.body.input \in {undefined, Num5, Str(<<"a">>)}
        /\ q.body.prompt \in {undefined, Str(<<"a">>)}
        /\ q.body.model \in {undefined, Str(<<"gpt-4">>)}
        /\ q.body.messages \in {undefined, Arr(<<[role |-> "user", content |-> <<"a">>]>>)}
        /\ q.body.stream \in {undefined, Bool(TRUE)}
        /\ q.body.contents = undefined}

ArriveConc(r) ==
    /\ pc[r] = "new"
    /\ \E q \in ConcRequests : req' = [req EXCEPT ![r] = q]
    /\ pc' = [pc EXCEPT ![r] = "arrived"]
    /\ UNCHANGED <<config, supervisor, resp, nresp, handlerRan, ollamaCalls, call, timer, reply, thrown,
                   tagsCalls, googleCalls, gcontents>>

InitConc ==
    /\ API_KEY \in {undefined, Secret}
    /\ GEMINI_API_KEY \in {undefined, Str(<<"gkey">>)}
    /\ pc = [r \in ConcSlots |-> "new"]
    /\ req = [r \in ConcSlots |-> NoRequest]
    /\ resp = [r \in ConcSlots |-> NoResponse]
    /\ nresp = [r \in ConcSlots |-> 0]
    /\ handlerRan = [r \in ConcSlots |-> FALSE]
    /\ ollamaCalls = [r \in ConcSlots |-> 0]
    /\ call = [r \in ConcSlots |-> NoCall]
    /\ timer = [r \in ConcSlots |-> "unset"]
    /\ reply = [r \in ConcSlots |-> NoReply]
    /\ thrown = [r \in ConcSlots |-> NoError]
    /\ tagsCalls = [r \in ConcSlots |-> 0]
    /\ googleCalls = [r \in ConcSlots |-> 0]
    /\ gcontents = [r \in ConcSlots |-> undefined]
    /\ NoSupervisor

NextConc ==
    \E r \in ConcSlots :
        \/ ArriveConc(r)
        \/ JsonMiddleware(r)
        \/ PublicRoute(r)
        \/ ApiGate(r)
        \/ V1Gate(r)
        \/ ErrorMiddleware(r)
        \/ RejectionForwarded(r)
        \/ RejectionUnhandled(r)
        \/ NativeRoute(r)
        \/ ChatCompletions(r)
        \/ Completions(r)
        \/ TestRoute(r)
        \/ V1Models(r)
        \/ FetchResolves(r)
        \/ FetchRejects(r)
        \/ TimerFires(r)
        \/ AbortRejects(r)
        \/ ReadJson(r)
        \/ ReadErrorText(r)
        \/ ReadFails(r)
        \/ OllamaStatus(r)
        \/ TagsAnswered(r)
        \/ GoogleGemma(r)
        \/ GoogleStreamEnds(r)
        \/ GoogleFails(r)

SpecConc == InitConc /\ [][NextConc]_vars


\* --------------------------------------------------------- start-server.js
MAX_RESTARTS == 5
RESTART_DELAY == 5000
RESET_DELAY == 30000

\* the exit codes a close event carries
ExitCodes == {0, 1}

\* the server the supervisor runs is not looked into
server ==
    <<API_KEY, GEMINI_API_KEY, pc, req, resp, nresp, handlerRan, ollamaCalls, call, timer,
      reply, thrown, tagsCalls, googleCalls, gcontents>>

\* a sequence without its i-th element
RemoveAt(seq, i) == SubSeq(seq, 1, i - 1) \o SubSeq(seq, i + 1, Len(seq))

\* startServer(): spawn the child, attach the handlers, set the reset timer
startServer ==
    /\ children' = children + 1
    /\ resetTimers' = resetTimers \cup {RESET_DELAY}
    /\ logged' = "Starting server..."

\* `npm run start:managed`: the module ran to its end, startServer() was called
InitSupervisor ==
    /\ API_KEY = Secret
    /\ GEMINI_API_KEY = undefined
    /\ InitRequests
    /\ supervisorUp = TRUE
    /\ restartCount = 0
    /\ children = 1
    /\ restartTimers = <<>>
    /\ resetTimers = {RESET_DELAY}
    /\ exitLog = <<>>
    /\ logged = "Starting server..."

\* setTimeout(() => { startServer(); }, RESTART_DELAY) is due
RestartTimerFires ==
    /\ supervisorUp
    /\ \E i \in 1..Len(restartTimers) :
        /\ restartTimers[i] = 0
        /\ restartTimers' = RemoveAt(restartTimers, i)
    /\ startServer
    /\ UNCHANGED <<server, supervisorUp, restartCount, exitLog>>

\* setTimeout(() => { restartCount = 0; }, 30000) is due
ResetTimerFires ==
    /\ supervisorUp
    /\ 0 \in resetTimers
    /\ resetTimers' = resetTimers \ {0}
    /\ restartCount' = 0
    /\ UNCHANGED <<server, supervisorUp, children, restartTimers, exitLog, logged>>

\* variant: the test reads restartCount <= MAX_RESTARTS
ChildClose_OffByOne(code) ==
    /\ supervisorUp
    /\ children > 0
    /\ children' = children - 1
    /\ exitLog' = <<code>>
    /\ IF code # 0 /\ restartCount <= MAX_RESTARTS
       THEN /\ restartCount' = restartCount + 1
            /\ restartTimers' = Append(restartTimers, RESTART_DELAY)
            /\ logged' = "Restarting server"
       ELSE /\ logged' = IF restartCount >= MAX_RESTARTS
                         THEN "Max restart attempts reached"
                         ELSE "Server shut down normally"
            /\ UNCHANGED <<restartCount, restartTimers>>
    /\ UNCHANGED <<server, supervisorUp, resetTimers>>

\* serverProcess.on('close', (code) => ...)
ChildClose(code) ==
    /\ supervisorUp
    /\ children > 0
    /\ children' = children - 1
    /\ exitLog' = <<code>>
    /\ IF code # 0 /\ restartCount < MAX_RESTARTS
       THEN /\ restartCount' = restartCount + 1
            /\ restartTimers' = Append(restartTimers, RESTART_DELAY)
            /\ logged' = "Restarting server"
       ELSE /\ logged' = IF restartCount >= MAX_RESTARTS
                         THEN "Max restart attempts reached"
                         ELSE "Server shut down normally"
            /\ UNCHANGED <<restartCount, restartTimers>>
    /\ UNCHANGED <<server, supervisorUp, resetTimers>>

\* the child closes with some exit code
ChildCloses == \E code \in ExitCodes : ChildClose(code)

\* variant: the error handler schedules a restart of its own
ChildError_Restarts ==
    /\ supervisorUp
    /\ children > 0
    /\ Len(restartTimers) < 2
    /\ restartTimers' = Append(restartTimers, RESTART_DELAY)
    /\ logged' = "Failed to start server"
    /\ UNCHANGED <<server, supervisorUp, restartCount, children, resetTimers, exitLog>>

\* serverProcess.on('error', (error) => ...): the handler only logs
ChildError ==
    /\ supervisorUp
    /\ children > 0
    /\ logged' = "Failed to start server"
    /\ UNCHANGED <<server, supervisorUp, restartCount, children, restartTimers,
                   resetTimers, exitLog>>

\* ms left after RESTART_DELAY ms more have passed
Later(ms) == IF ms >= RESTART_DELAY THEN ms - RESTART_DELAY ELSE 0

\* RESTART_DELAY ms pass; a timer that is due fires before more time passes
TimePasses ==
    /\ supervisorUp
    /\ Len(restartTimers) > 0 \/ resetTimers # {}
    /\ \A i \in 1..Len(restartTimers) : restartTimers[i] > 0
    /\ 0 \notin resetTimers
    /\ restartTimers' = [i \in 1..Len(restartTimers) |-> Later(restartTimers[i])]
    /\ resetTimers' = {Later(ms) : ms \in resetTimers}
    /\ UNCHANGED <<server, supervisorUp, restartCount, children, exitLog, logged>>

\* process.on('SIGINT') and process.on('SIGTERM'): the child is killed and
\* the supervisor exits, its timers with it
Signal ==
    /\ supervisorUp
    /\ supervisorUp' = FALSE
    /\ children' = 0
    /\ restartTimers' = <<>>
    /\ resetTimers' = {}
    /\ logged' = "Received signal, shutting down gracefully..."
    /\ UNCHANGED <<server, restartCount, exitLog>>

NextSupervisor ==
    \/ RestartTimerFires
    \/ ResetTimerFires
    \/ ChildCloses
    \/ ChildError
    \/ TimePasses
    \/ Signal

SpecSupervisor == InitSupervisor /\ [][NextSupervisor]_vars

\* a server that fails every time it is started: each child closes with a
\* non-zero code, after any time, and the supervisor is never signalled
ChildCrashes == \E code \in ExitCodes \ {0} : ChildClose(code)

NextCrashLoop ==
    \/ RestartTimerFires
    \/ ResetTimerFires
    \/ ChildCrashes
    \/ ChildError
    \/ TimePasses

\* Node runs every timer that is due, time goes on, and the child does exit
SpecCrashLoop ==
    /\ InitSupervisor
    /\ [][NextCrashLoop]_vars
    /\ WF_vars(RestartTimerFires)
    /\ WF_vars(ResetTimerFires)
    /\ WF_vars(TimePasses)
    /\ WF_vars(ChildCrashes)

\* ------------------------------------------------------------------ claims
Answered(r) == pc[r] = "done"

Gated(q) == q.route \in ApiRoutes \cup V1Routes

\* the key the gate of the request's path compares with API_KEY
KeyOf(q) == IF q.route \in V1Routes THEN V1KeyOf(q) ELSE ApiKeyOf(q)

Authorized(q) == Gated(q) /\ StrictEq(KeyOf(q), API_KEY)

\* the server was started with API_KEY set
Configured == API_KEY = Secret

NoOutboundCall(r) == ollamaCalls[r] = 0 /\ tagsCalls[r] = 0 /\ googleCalls[r] = 0

\* the text field a generation route requires
RequiredField(q) ==
    CASE q.route \in NativeRoutes -> q.body.input
      [] q.route = "/v1/chat/completions" -> q.body.messages
      [] OTHER -> q.body.prompt

\* the request's JSON body parsed and holds no such field
LacksRequiredField(q) == q.body.ok /\ RequiredField(q).t = "undefined"

\* the message of an error response
ErrorMessageOf(response) ==
    IF response.body.kind = "error" THEN response.body.error
    ELSE IF response.body.kind = "openai_error" THEN response.body.message
    ELSE <<>>

\* sub occurs in s
Contains(s, sub) ==
    \E i \in 1..(Len(s) - Len(sub) + 1) : SubSeq(s, i, i + Len(sub) - 1) = sub

\* C1: on every route under /api and /v1, a request whose key differs from
\* the configured secret is answered 403 (/api) or 401 (/v1), no route
\* handler runs for it and no upstream or provider call is made for it.
C1_RejectedBeforeHandler ==
    \A r \in Slots :
        (Configured /\ pc[r] # "new" /\ Gated(req[r])
            /\ ~StrictEq(KeyOf(req[r]), API_KEY)) =>
            /\ ~handlerRan[r]
            /\ NoOutboundCall(r)
            /\ Answered(r) =>
                resp[r].status = (IF req[r].route \in ApiRoutes THEN 403 ELSE 401)

MissingFieldRejected(routes) ==
    \A r \in Slots :
        (pc[r] # "new" /\ req[r].route \in routes /\ Authorized(req[r])
            /\ LacksRequiredField(req[r])) =>
            /\ NoOutboundCall(r)
            /\ pc[r] \in {"arrived", "routing", "handler", "done"}
            /\ Answered(r) => resp[r].status = 400

\* C2 as stated: on every generation route, /api/google-gemma included, an
\* authorized request that lacks the required text field is answered 400
\* and no outbound call is made for it (looked at on a server that has both
\* API_KEY and GEMINI_API_KEY set).
C2_MissingFieldRejectedEverywhere ==
    (Configured /\ Truthy(GEMINI_API_KEY)) =>
        MissingFieldRejected(GenerationRoutes \cup {"/api/google-gemma"})

\* C2 as amended: on the six routes that call Ollama, an authorized request
\* whose body lacks the required text field is answered 400 and no outbound
\* call is made for it.
C2_MissingFieldRejected == MissingFieldRejected(GenerationRoutes)

C2_Witness ==
    \E r \in Slots :
        /\ req[r].route \in GenerationRoutes
        /\ Authorized(req[r])
        /\ LacksRequiredField(req[r])
        /\ handlerRan[r]
        /\ Answered(r)
        /\ resp[r].status = 400

\* C3: when the abort timer fires while the fetch is pending, the call is
\* cancelled, callOllamaAPI throws the timeout error, a generation route
\* answers 408, and exactly one upstream call was attempted.
C3_TimeoutAnswered408 ==
    \A r \in Slots :
        timer[r] = "fired" =>
            /\ reply[r].kind = "aborted"
            /\ ollamaCalls[r] = 1
            /\ Answered(r) =>
                /\ thrown[r] = Error(TimeoutMessage)
                /\ req[r].route \in GenerationRoutes => resp[r].status = 408

C3_Witness ==
    \E r \in Slots :
        /\ timer[r] = "fired"
        /\ req[r].route \in GenerationRoutes
        /\ Answered(r)
        /\ resp[r].status = 408
        /\ ollamaCalls[r] = 1

\* C4: at most one generate call is issued per request whatever the outcome;
\* after a failure or a cancellation the request is answered with an error
\* and with no result.
C4_SingleAttempt ==
    \A r \in Slots :
        /\ ollamaCalls[r] <= 1
        /\ (thrown[r] # NoError \/ timer[r] = "fired") =>
            /\ ollamaCalls[r] = 1
            /\ Answered(r) =>
                /\ resp[r].status \in {408, 500}
                /\ resp[r].body.kind \in {"error", "openai_error"}

C4_Witness ==
    \E r \in Slots :
        /\ reply[r].kind = "error"
        /\ thrown[r] # NoError
        /\ ollamaCalls[r] = 1
        /\ Answered(r)
        /\ resp[r].status = 500

\* C5: on every route that invokes callOllamaAPI, a timeout thrown by
\* callOllamaAPI is answered 408 and every other error it throws is
\* answered 500. Stated for the six generation routes among them; the two
\* test routes answer 500 to every error, the timeout included.
C5_TimeoutElse500 ==
    \A r \in Slots :
        (Configured /\ req[r].route \in GenerationRoutes /\ Answered(r)
            /\ thrown[r] # NoError) =>
            resp[r].status = (IF thrown[r] = Error(TimeoutMessage) THEN 408 ELSE 500)

\* C6: when the upstream answers a generate call with a non-success status,
\* the generation route answers 500 and its error message holds the
\* upstream's error body text, for every error body text.
C6_UpstreamError500 ==
    \A r \in Slots :
        (Configured /\ req[r].route \in GenerationRoutes /\ Answered(r)
            /\ reply[r].kind = "error") =>
            /\ resp[r].status = 500
            /\ Contains(ErrorMessageOf(resp[r]), reply[r].text)

\* C7: on a native generation route, when the upstream call returns text T
\* the answer is status 200 with the body {result: T}.
C7_NativeResult ==
    \A r \in Slots :
        (req[r].route \in NativeRoutes /\ Answered(r) /\ reply[r].kind = "data"
            /\ reply[r].response.t = "string") =>
            resp[r] = [status |-> 200,
                       body |-> [kind |-> "result", result |-> reply[r].response]]

C7_Witness ==
    \E r \in Slots :
        /\ req[r].route = "/api/llama32-1b"
        /\ Authorized(req[r])
        /\ req[r].body.input = Str(<<"a">>)
        /\ reply[r].kind = "data"
        /\ reply[r].response = Str(<<"a", "timeout">>)
        /\ Answered(r)
        /\ resp[r].status = 200

\* C8: on /v1/chat/completions, when the upstream call returns text T the
\* envelope has content T, role 'assistant', model equal to the requested
\* alias and completion_tokens = ceil(len(T)/4).
C8_ChatEnvelope ==
    \A r \in Slots :
        (req[r].route = "/v1/chat/completions" /\ Answered(r) /\ reply[r].kind = "data"
            /\ reply[r].response.t = "string") =>
            /\ resp[r].status = 200
            /\ resp[r].body.kind = "chat.completion"
            /\ resp[r].body.content = reply[r].response
            /\ resp[r].body.role = "assistant"
            /\ resp[r].body.model = req[r].body.model
            /\ LET n == resp[r].body.usage.completion_tokens
                   len == StrLen(reply[r].response.v)
               IN  4 * n >= len /\ 4 * (n - 1) < len

C8_Witness ==
    \E r \in Slots :
        /\ req[r].route = "/v1/chat/completions"
        /\ req[r].body.model = Str(<<"gpt-3.5-turbo">>)
        /\ reply[r].kind = "data"
        /\ reply[r].response = Str(<<"a">>)
        /\ Answered(r)
        /\ resp[r].status = 200
        /\ resp[r].body.usage.completion_tokens = 1

\* C9: for every alias string that is not a key of the mapping table,
\* mapModelName returns the default model 'llama3.2:3b' (looked at for the
\* alias of every request whose handler called mapModelName).
C9_UnknownAliasDefaults ==
    \A r \in Slots :
        (Configured /\ ollamaCalls[r] >= 1
            /\ req[r].route \in {"/v1/chat/completions", "/v1/completions"}
            /\ req[r].body.model.t = "string"
            /\ ToPropertyKey(req[r].body.model) \notin DOMAIN modelMap) =>
            mapModelName(req[r].body.model) = Str(<<"llama3.2:3b">>)

\* C10: mapModelName maps the aliases as the README lists them, and the model
\* named in the generate call of /v1/chat/completions and /v1/completions is
\* the mapped id of the requested alias.
C10_CallNamesMappedModel ==
    /\ mapModelName(Str(<<"gpt-3.5-turbo">>)) = Str(<<"llama3.2:3b">>)
    /\ mapModelName(Str(<<"text-davinci-003">>)) = Str(<<"llama3.2:3b">>)
    /\ mapModelName(Str(<<"gpt-4">>)) = Str(<<"gemma3:4b">>)
    /\ mapModelName(Str(<<"gpt-4-turbo">>)) = Str(<<"gemma3:4b">>)
    /\ mapModelName(Str(<<"gpt-4o">>)) = Str(<<"gemma3:4b">>)
    /\ mapModelName(Str(<<"gpt-4o-mini">>)) = Str(<<"llama3.2:1b">>)
    /\ mapModelName(Str(<<"code-davinci-002">>)) = Str(<<"phi3:mini">>)
    /\ \A r \in Slots :
        (Configured /\ req[r].route \in {"/v1/chat/completions", "/v1/completions"}
            /\ ollamaCalls[r] >= 1) =>
            call[r].model = mapModelName(req[r].body.model)

OpenAIRoutes == {"/v1/chat/completions", "/v1/completions"}

\* the handler's first check passes: model and the text field are truthy
HasRequiredParameters(q) ==
    Truthy(q.body.model) /\ Truthy(RequiredField(q))

StreamRejection(r) ==
    /\ resp[r].status = 400
    /\ resp[r].body.kind = "openai_error"
    /\ resp[r].body.code = "unsupported_parameter"

StreamRule(r, covered) ==
    (pc[r] # "new" /\ req[r].route \in OpenAIRoutes /\ Authorized(req[r])
        /\ req[r].body.ok) =>
        /\ (req[r].body.stream = Bool(TRUE) /\ covered) =>
            /\ ollamaCalls[r] = 0
            /\ Answered(r) => StreamRejection(r)
        /\ req[r].body.stream \in {undefined, Bool(FALSE)} =>
            ~(Answered(r) /\ resp[r].body.kind = "openai_error"
                /\ resp[r].body.code = "unsupported_parameter")

\* C11 as stated: on /v1/chat/completions and /v1/completions every
\* authorized request whose stream flag is true is answered 400 with code
\* unsupported_parameter and no upstream call; a request whose flag is absent
\* or false is never rejected with that code.
C11_StreamTrueRejected ==
    \A r \in Slots : Configured => StreamRule(r, TRUE)

\* C11 as amended: the same, for requests that carry a model and the route's
\* text field (messages or prompt); the missing-parameter check runs first.
C11_StreamTrueRejectedWhenComplete ==
    \A r \in Slots : StreamRule(r, HasRequiredParameters(req[r]))

C11_Witness ==
    \E r \in Slots :
        /\ req[r].route = "/v1/completions"
        /\ Authorized(req[r])
        /\ HasRequiredParameters(req[r])
        /\ req[r].body.stream = Bool(TRUE)
        /\ Answered(r)
        /\ resp[r] = StreamingUnsupported
        /\ ollamaCalls[r] = 0

\* the number of segments of a flattened prompt: each one ends with "\n\n"
RECURSIVE SegmentCount(_)
SegmentCount(prompt) ==
    IF prompt = <<>> THEN 0
    ELSE (IF Head(prompt) = "\n\n" THEN 1 ELSE 0) + SegmentCount(Tail(prompt))

\* the role tags of a prompt, in order, the trailing cue left out
RECURSIVE TagsOf(_)
TagsOf(prompt) ==
    IF Len(prompt) <= 1 THEN <<>>
    ELSE (IF Head(prompt) \in {"System: ", "Human: ", "Assistant: "}
          THEN <<Head(prompt)>> ELSE <<>>) \o TagsOf(Tail(prompt))

EndsWithCue(prompt) == prompt # <<>> /\ prompt[Len(prompt)] = "Assistant: "

\* C12: the prompt /v1/chat/completions sends to the upstream holds one
\* role-tagged segment per message of the request, in the order of the
\* messages, and ends with the open 'Assistant: ' cue.
C12_FlatteningComplete ==
    \A r \in Slots :
        (Configured /\ req[r].route = "/v1/chat/completions" /\ ollamaCalls[r] >= 1) =>
            LET prompt == call[r].prompt.v
                messages == req[r].body.messages
            IN  /\ EndsWithCue(prompt)
                /\ messages.t = "array" =>
                    /\ SegmentCount(prompt) = Len(messages.v)
                    /\ Len(TagsOf(prompt)) = Len(messages.v)

ConfigErrorMessage ==
    <<"Google API key not configured. Set ", "GEMINI_API_KEY", " environment variable.">>

\* C13: with GEMINI_API_KEY not configured, a request handled by
\* POST /api/google-gemma is answered by the handler with status 500 and the
\* fixed message that tells the user to set GEMINI_API_KEY, and no call to
\* the Google provider is made.
C13_MissingCredential ==
    \A r \in Slots :
        (~Truthy(GEMINI_API_KEY) /\ req[r].route = "/api/google-gemma"
            /\ handlerRan[r]) =>
            /\ googleCalls[r] = 0
            /\ Answered(r)
            /\ resp[r] = NativeError(500, ConfigErrorMessage)

C13_Witness ==
    \E r \in Slots :
        /\ Configured
        /\ GEMINI_API_KEY = undefined
        /\ req[r].route = "/api/google-gemma"
        /\ Authorized(req[r])
        /\ req[r].body.prompt = Str(<<"a">>)
        /\ Answered(r)
        /\ resp[r].status = 500
        /\ ErrorMessageOf(resp[r]) = ConfigErrorMessage
        /\ googleCalls[r] = 0

\* everything the server holds for one request
SlotState(r) ==
    <<pc[r], req[r], resp[r], nresp[r], handlerRan[r], ollamaCalls[r], call[r], timer[r],
      reply[r], thrown[r], tagsCalls[r], googleCalls[r], gcontents[r]>>

\* what the upstream or the provider did with the request's own call
OwnOutcome(r) == <<reply[r], timer[r]>>

\* a call is aborted only by its own timer, and two answered requests with
\* the same headers and body and the same outcome of their own calls have
\* the same response
OwnOutcomeDecides ==
    /\ \A r \in ConcSlots : reply[r].kind = "aborted" => timer[r] = "fired"
    /\ \A r \in ConcSlots : timer[r] # "unset" => ollamaCalls[r] = 1
    /\ \A r1, r2 \in ConcSlots :
        (Answered(r1) /\ Answered(r2) /\ req[r1] = req[r2]
            /\ OwnOutcome(r1) = OwnOutcome(r2)) => resp[r1] = resp[r2]

\* a step handles one request: it leaves the configuration and everything
\* held for the other requests as they were
OneRequestPerStep ==
    /\ config' = config
    /\ \E r \in ConcSlots : \A s \in ConcSlots \ {r} : SlotState(s)' = SlotState(s)

\* C14: with several requests in flight, under every interleaving, each
\* response is determined by the request's own headers and body and the
\* outcome of its own upstream call; the timeout of one call never aborts
\* another call, and a step that handles one request neither changes nor
\* depends on what is held for another.
C14_RequestsIndependent == []OwnOutcomeDecides /\ [][OneRequestPerStep]_vars

C14_Witness ==
    /\ req[1].route = "/api/llama32-1b"
    /\ req[2].route = "/api/llama32-1b"
    /\ req[1] = req[2]
    /\ timer[1] = "fired"
    /\ Answered(1)
    /\ resp[1].status = 408
    /\ timer[2] = "cleared"
    /\ reply[2].kind = "data"
    /\ Answered(2)
    /\ resp[2].status = 200

\* the request carries neither an x-api-key nor an Authorization header
CarriesNoKey(q) == q.xApiKey = undefined /\ q.authorization = undefined

\* C15: in every configuration, the one started without API_KEY included, a
\* request under /api or /v1 that carries no key at all is never passed on
\* to a route handler and no outbound call is made for it.
C15_NoKeyNeverHandled ==
    \A r \in Slots :
        (pc[r] # "new" /\ Gated(req[r]) /\ CarriesNoKey(req[r])) =>
            /\ ~handlerRan[r]
            /\ pc[r] # "handler"
            /\ NoOutboundCall(r)

\* C16: GET / and GET /health answer 200 with their normal body for every
\* value of the key headers, present or absent, right or wrong; they never
\* answer with an authorization failure and make no outbound call.
C16_PublicRoutesOpen ==
    \A r \in Slots :
        (pc[r] # "new" /\ req[r].route \in PublicRoutes /\ req[r].body.ok) =>
            /\ NoOutboundCall(r)
            /\ pc[r] \in {"arrived", "routing", "done"}
            /\ Answered(r) =>
                resp[r] = [status |-> 200,
                           body |-> [kind |-> "public", route |-> req[r].route]]

C16_Witness ==
    \E r \in Slots :
        /\ Configured
        /\ req[r].route = "/health"
        /\ req[r].xApiKey = Str(<<"wrong">>)
        /\ req[r].authorization = Str(<<"Bearer ", "wrong">>)
        /\ Answered(r)
        /\ resp[r].status = 200

\* the model and the timeout (ms) each route is documented to use
DocumentedModel(route) ==
    CASE route = "/api/llama32-1b" -> "llama3.2:1b"
      [] route = "/api/llama32-3b" -> "llama3.2:3b"
      [] route = "/api/gemma3-4b" -> "gemma3:4b"
      [] route = "/api/phi3-mini" -> "phi3:mini"

DocumentedTimeout(route) ==
    CASE route = "/api/llama32-1b" -> 180 * 1000
      [] route = "/api/llama32-3b" -> 120 * 1000
      [] route = "/api/gemma3-4b" -> 150 * 1000
      [] route = "/api/phi3-mini" -> 120 * 1000
      [] route = "/api/test-ollama" -> 30 * 1000

\* C17: every generate call carries the model and the timeout fixed for the
\* route that issued it, whatever the request body: llama3.2:1b with 180 s,
\* llama3.2:3b with 120 s, gemma3:4b with 150 s, phi3:mini with 120 s on the
\* four native routes, and 30 s on /api/test-ollama.
C17_RouteFixesModelAndTimeout ==
    \A r \in Slots :
        (ollamaCalls[r] >= 1 /\ req[r].route \in NativeRoutes \cup {"/api/test-ollama"}) =>
            /\ call[r].timeout = DocumentedTimeout(req[r].route)
            /\ req[r].route \in NativeRoutes =>
                call[r].model = Str(<<DocumentedModel(req[r].route)>>)

C17_Witness ==
    \E r \in Slots :
        /\ req[r].route = "/api/gemma3-4b"
        /\ req[r].body.input = Str(<<"a", "timeout">>)
        /\ ollamaCalls[r] = 1
        /\ call[r].model = Str(<<"gemma3:4b">>)
        /\ call[r].timeout = 150000
        /\ call[r].prompt = Str(<<"a", "timeout">>)

\* C18: every non-success response sent on a /v1 path has a body of the
\* shape {error: {message, type, code}}.
C18_V1ErrorEnvelope ==
    \A r \in Slots :
        (Configured /\ req[r].route \in V1Routes /\ Answered(r)
            /\ resp[r].status >= 400) =>
            resp[r].body.kind = "openai_error"

GenericError == NativeError(500, <<"Internal server error">>)

\* the request makes code throw where no route handler catches it: the body
\* parser, or a native handler's input.substring(...) before its try
ThrowsUncaught(r) ==
    \/ ~req[r].body.ok
    \/ /\ req[r].route \in NativeRoutes
       /\ handlerRan[r]
       /\ Truthy(req[r].body.input)
       /\ req[r].body.input.t # "string"

\* C19: an error that no route handler catches is answered with status 500
\* and the body {error: 'Internal server error'}; the request is not left
\* without an answer and no text of the underlying error is in the response.
C19_UncaughtAnswered500 ==
    \A r \in Slots :
        (Configured /\ pc[r] \notin {"new", "arrived"} /\ ThrowsUncaught(r)) =>
            /\ pc[r] \in {"error", "rejected", "done"}
            /\ Answered(r) => resp[r] = GenericError

\* the body holds an input text and neither prompt nor contents
OnlyInput(b) ==
    b.ok /\ b.input.t = "string" /\ b.input.v # <<>> /\ b.prompt = undefined
        /\ b.contents = undefined

\* C20: a body of POST /api/google-gemma whose only field is `input` is sent
\* to the provider as one user message holding the input text, as the same
\* text in a `prompt` field is.
C20_InputSentAsPrompt ==
    \A r \in Slots :
        (Configured /\ req[r].route = "/api/google-gemma" /\ googleCalls[r] >= 1
            /\ OnlyInput(req[r].body)) =>
            /\ gcontents[r] = Arr(<<[role |-> "user", parts |-> <<req[r].body.input.v>>]>>)
            /\ gcontents[r] = GoogleContents([EmptyBody EXCEPT !.prompt = req[r].body.input])

\* one user message holding the text
UserMessage(text) == Arr(<<[role |-> "user", parts |-> <<text>>]>>)

\* the texts of the chunks 1..n joined in arrival order
RECURSIVE JoinTexts(_, _)
JoinTexts(chunks, n) ==
    IF n = 0 THEN <<>>
    ELSE JoinTexts(chunks, n - 1) \o
         (IF chunks[n].t = "string" THEN chunks[n].v ELSE <<>>)

GoogleRule(r, promptCounts) ==
    (req[r].route = "/api/google-gemma" /\ googleCalls[r] >= 1) =>
        LET b == req[r].body IN
        /\ (b.prompt.t = "string" /\ promptCounts) =>
            gcontents[r] = UserMessage(b.prompt.v)
        /\ (b.prompt = undefined /\ b.contents # undefined) =>
            gcontents[r] = b.contents
        /\ (Answered(r) /\ reply[r].kind = "chunks") =>
            /\ resp[r].status = 200
            /\ resp[r].body.result = Str(JoinTexts(reply[r].chunks, Len(reply[r].chunks)))

CloseHandled == supervisorUp' /\ children' = children - 1

\* a child is spawned in this step
Spawned == children' = children + 1

\* neither a child nor a restart timer is left
Stopped == children = 0 /\ restartTimers = <<>>

CloseRule ==
    CloseHandled =>
        IF exitLog'[1] # 0 /\ restartCount < 5
        THEN /\ restartCount' = restartCount + 1
             /\ restartTimers' = Append(restartTimers, 5000)
        ELSE /\ restartCount' = restartCount
             /\ restartTimers' = restartTimers

SpawnRule ==
    Spawned =>
        \E i \in 1..Len(restartTimers) :
            restartTimers[i] = 0 /\ restartTimers' = RemoveAt(restartTimers, i)

\* C22: a close with a non-zero code while fewer than 5 restarts are counted
\* increments the counter and sets a restart timer of 5 s, and a child is
\* spawned only when such a timer is due; a close with code 0, or with 5
\* restarts counted, sets no timer and no child is started from then on; the
\* counter stays between 0 and 5.
C22_RestartRule ==
    /\ [](restartCount \in 0..5)
    /\ [][CloseRule /\ SpawnRule /\ (Stopped => Stopped')]_vars

C22_Witness ==
    /\ restartCount = 5
    /\ exitLog = <<1>>
    /\ logged = "Max restart attempts reached"
    /\ Stopped

\* restartCount goes back to zero only when a reset timer fires
ResetOnlyByTimer ==
    (restartCount # 0 /\ restartCount' = 0) =>
        (0 \in resetTimers /\ resetTimers' = resetTimers \ {0})

\* C23: when the child exits with a non-zero code each time it is started,
\* whatever the time between start and exit, the supervisor eventually logs
\* that the maximum of restart attempts is reached and stops restarting; the
\* counter goes back to zero only through the reset timer.
C23_RestartsBounded ==
    /\ <>(logged = "Max restart attempts reached" /\ Stopped)
    /\ [][ResetOnlyByTimer]_vars

\* C30: at every moment the supervisor has at most one live server child
\* and at most one pending restart timer, and never both: a restart is
\* scheduled only by the close event of the previous child, whatever the
\* order of the close, error, restart-timer and reset-timer events.
C30_OneChildOneTimer ==
    /\ children <= 1
    /\ Len(restartTimers) <= 1
    /\ children + Len(restartTimers) <= 1

C30_Witness ==
    /\ supervisorUp
    /\ children = 1
    /\ restartCount = 2
    /\ restartTimers = <<>>
    /\ exitLog = <<1>>
    /\ logged = "Failed to start server"
    /\ Cardinality(resetTimers) >= 2

\* the request is at a point from which its processing goes on
InProgress(r) ==
    pc[r] \in {"handler", "fetching", "aborted", "json", "text", "rejected", "error"}

\* C25: every request that passed the auth gate on a generation route gets
\* exactly one response, with status 200, 400, 408 or 500, never none and
\* never two, for every JSON body and every upstream reply: its processing
\* never ends without a response.
C25_ExactlyOneResponse ==
    \A r \in Slots :
        (Configured /\ req[r].route \in GenerationRoutes /\ Authorized(req[r])
            /\ req[r].body.ok /\ pc[r] \notin {"new", "arrived", "routing"}) =>
            /\ nresp[r] <= 1
            /\ InProgress(r) \/ Answered(r)
            /\ InProgress(r) => nresp[r] = 0
            /\ Answered(r) => (nresp[r] = 1 /\ resp[r].status \in {200, 400, 408, 500})

\* how the call of callOllamaAPI ended
ReturnedText(r) == reply[r].kind = "data" /\ thrown[r] = NoError
ThrewTimeout(r) == thrown[r] = Error(TimeoutMessage)
ThrewOther(r) == thrown[r] # NoError /\ thrown[r] # Error(TimeoutMessage)

\* C26: each call of callOllamaAPI settles with exactly one of the generated
\* text, the timeout error or another error; the timer is armed only while
\* the fetch is pending and is disarmed on every exit path; the timeout error
\* is thrown exactly when the timer fired, and then no reply is returned.
C26_SettlesOnce ==
    \A r \in Slots :
        ollamaCalls[r] >= 1 =>
            /\ timer[r] = "armed" <=> pc[r] = "fetching"
            /\ pc[r] \in {"json", "text"} => timer[r] = "cleared"
            /\ pc[r] = "aborted" => timer[r] = "fired"
            /\ Answered(r) =>
                /\ timer[r] \in {"cleared", "fired"}
                /\ ReturnedText(r) \/ ThrewTimeout(r) \/ ThrewOther(r)
                /\ ~(ReturnedText(r) /\ ThrewTimeout(r))
                /\ ~(ReturnedText(r) /\ ThrewOther(r))
                /\ ThrewTimeout(r) <=> timer[r] = "fired"
                /\ timer[r] = "fired" =>
                    (reply[r].kind = "aborted" /\ resp[r].status # 200)

C26_Witness ==
    \E r \in Slots :
        /\ req[r].route = "/api/test-ollama"
        /\ ollamaCalls[r] = 1
        /\ timer[r] = "fired"
        /\ reply[r].kind = "aborted"
        /\ ThrewTimeout(r)
        /\ Answered(r)
        /\ resp[r].status = 500

\* the key C27 says the /v1 gate compares with the secret
KeyPerClaim(q) ==
    IF q.xApiKey.t = "string" /\ q.xApiKey.v # <<>> THEN q.xApiKey
    ELSE IF q.authorization.t = "string"
    THEN Str(ReplaceFirst(q.authorization.v, "Bearer "))
    ELSE undefined

\* C27: on /v1 the key compared with the secret is the x-api-key header when
\* it is present and not empty, else the Authorization header without
\* 'Bearer '; a request with the secret as Bearer token and no x-api-key
\* passes the gate, and one with a wrong non-empty x-api-key is answered 401
\* even when its Authorization header carries the secret.
C27_V1KeySelection ==
    \A r \in Slots :
        (Configured /\ req[r].route \in V1Routes /\ Answered(r)) =>
            /\ KeyPerClaim(req[r]) = Secret => (handlerRan[r] /\ resp[r].status # 401)
            /\ KeyPerClaim(req[r]) # Secret => (~handlerRan[r] /\ resp[r].status = 401)

\* n = ceil(len / 4)
IsCeilQuarter(n, len) == 4 * n >= len /\ 4 * (n - 1) < len

\* C28: in every successful /v1/chat/completions and /v1/completions
\* response prompt_tokens = ceil(len(prompt)/4), completion_tokens =
\* ceil(len(result)/4) and total_tokens = ceil((len(prompt)+len(result))/4);
\* total_tokens is at most prompt_tokens + completion_tokens and smaller by
\* at most 1.
C28_UsageCounters ==
    \A r \in Slots :
        (req[r].route \in OpenAIRoutes /\ Answered(r) /\ resp[r].status = 200) =>
            LET u == resp[r].body.usage
                lp == StrLen(call[r].prompt.v)
                lr == StrLen(reply[r].response.v)
            IN  /\ IsCeilQuarter(u.prompt_tokens, lp)
                /\ IsCeilQuarter(u.completion_tokens, lr)
                /\ IsCeilQuarter(u.total_tokens, lp + lr)
                /\ u.total_tokens <= u.prompt_tokens + u.completion_tokens
                /\ u.prompt_tokens + u.completion_tokens <= u.total_tokens + 1

C28_Witness ==
    \E r \in Slots :
        /\ req[r].route = "/v1/completions"
        /\ req[r].body.prompt = Str(<<"a", "timeout">>)
        /\ reply[r].kind = "data"
        /\ reply[r].response = Str(<<"a">>)
        /\ Answered(r)
        /\ resp[r].status = 200
        /\ resp[r].body.usage =
            [prompt_tokens |-> 2, completion_tokens |-> 1, total_tokens |-> 3]

LocalModels == {"llama3.2:1b", "llama3.2:3b", "gemma3:4b", "phi3:mini"}

\* C29: for every alias string a, mapModelName(a) is one of the four local
\* model ids, each of the four ids maps to itself, and mapModelName applied
\* twice gives what it gives applied once (looked at for the alias of every
\* request whose handler called mapModelName).
C29_MapIdempotent ==
    /\ \A id \in LocalModels : mapModelName(Str(<<id>>)) = Str(<<id>>)
    /\ \A r \in Slots :
        (Configured /\ req[r].route \in OpenAIRoutes /\ ollamaCalls[r] >= 1
            /\ req[r].body.model.t = "string") =>
            LET mapped == mapModelName(req[r].body.model)
            IN  /\ mapped \in {Str(<<id>>) : id \in LocalModels}
                /\ mapModelName(mapped) = mapped

====
